---- MODULE Spec2Model ----
(***************************************************************************)
(* Smart Link Formatter: the placeholder/replacement protocol of           *)
(* src/src/main.ts and the template engine of the clients module.          *)
(*                                                                         *)
(* Text is a sequence of cells.  A cell is a string: either one character  *)
(* that the code inspects on its own (a double quote, a space, a brace,    *)
(* the zero-width space, ...) or a lexeme, a run of characters the code    *)
(* only ever handles as a whole (the literal pieces of the placeholder     *)
(* span, a host name, a word of user text).  Regular expressions and       *)
(* String.includes / indexOf are computed cell by cell.                    *)
(***************************************************************************)
EXTENDS Integers, Sequences, FiniteSets, TLC

(* ---------------------------------------------------------------- bounds *)
MaxOps == 2
MaxEdits == 1

(* ----------------------------------------------------------------- cells *)
Quote == "\""
Space == " "
Newline == "\n"
\* the backtick character
Backtick == "<backtick>"
\* const BUFFER = '\u200B'
BUFFER == "<U+200B>"
\* the literal pieces of generateUniqueToken's template string
SpanOpen == "<span class=\"link-loading\" id=\""
UrlAttr == "url="
SpanClose == ">Loading...</span>"
\* the literal pieces of cleanupOrphanedPlaceholders' inactivePlaceholder
InactiveOpen == "<span class=\"link-loading-inactive\" id=\""
InactiveClose == ">Failed to resolve</span>"

\* `link-placeholder-${Date.now()}_${Math.floor(Math.random() * 1000000)}`:
\* the n-th token generated gets the n-th id; ids of distinct operations are
\* taken to be distinct (no two pastes in the same millisecond drawing the
\* same random number).  The last id belongs to an earlier session.
Ids == <<"link-placeholder-1", "link-placeholder-2", "link-placeholder-3",
         "link-placeholder-4", "link-placeholder-0">>
StaleId == Ids[Len(Ids)]

\* cells that contain a double-quote character
HasQuote(c) == c \in {Quote, SpanOpen, InactiveOpen}
\* cells matched by the regular expression class \s (U+200B is not in \s)
IsSpace(c) == c \in {Space, Newline}

(* ------------------------------------------------------ string primitives *)
Min(a, b) == IF a < b THEN a ELSE b
Max(a, b) == IF a > b THEN a ELSE b

\* s.substring(from, to) with 0-based offsets, from <= to
Slice(s, from, to) == SubSeq(s, from + 1, to)

\* s.indexOf(sub): 0-based offset of the first occurrence, -1 if none
IndexOf(s, sub) ==
  LET hits == {i \in 0..(Len(s) - Len(sub)) : Slice(s, i, i + Len(sub)) = sub}
  IN IF hits = {} THEN -1 ELSE CHOOSE i \in hits : \A j \in hits : i <= j

\* s.includes(sub)
Includes(s, sub) == IndexOf(s, sub) # -1

\* editor.replaceRange(text, offsetToPos(from), offsetToPos(to))
ReplaceRange(s, text, from, to) ==
  Slice(s, 0, from) \o text \o Slice(s, to, Len(s))

(* ------------------------------------------------------------ placeholder *)
\* generateUniqueToken(url) with the id given:
\* `<span class="link-loading" id="${id}" ${url ? `url="${url}"` : ''}>Loading...</span>`
generateUniqueToken(id, url) ==
  <<SpanOpen, id, Quote, Space>>
    \o (IF url # <<>> THEN <<UrlAttr, Quote>> \o url \o <<Quote>> ELSE <<>>)
    \o <<SpanClose>>

\* const generatePlaceholder = (placeholder) => placeholder + BUFFER
generatePlaceholder(token) == token \o <<BUFFER>>

\* placeholderPattern, matched at 0-based offset i of s:
\*   <span class="link-loading" id="(link-placeholder-[^"]+)"
\*   (?:\s+url="([^"]*)")?>Loading\.\.\.<\/span>(?:\u200B+)?
\* The result is [len, id, url]; len = 0 when there is no match at i.
\* first offset j >= i whose cell contains a double quote (Len(s) if none)
QuoteFrom(s, i) ==
  LET js == {j \in i..(Len(s) - 1) : HasQuote(s[j + 1])}
  IN IF js = {} THEN Len(s) ELSE CHOOSE j \in js : \A k \in js : j <= k
\* first offset j >= i whose cell is not white space
SkipSpace(s, i) ==
  LET js == {j \in i..(Len(s) - 1) : ~IsSpace(s[j + 1])}
  IN IF js = {} THEN Len(s) ELSE CHOOSE j \in js : \A k \in js : j <= k
\* first offset j >= i whose cell is not the zero-width space
SkipBuffer(s, i) ==
  LET js == {j \in i..(Len(s) - 1) : s[j + 1] # BUFFER}
  IN IF js = {} THEN Len(s) ELSE CHOOSE j \in js : \A k \in js : j <= k
CellAt(s, i) == IF i < Len(s) THEN s[i + 1] ELSE ""

NoMatch == [len |-> 0, id |-> <<>>, url |-> <<>>]

\* the tail >Loading...</span>(?:\u200B+)? at offset j
MatchTail(s, i, j, id, url) ==
  IF CellAt(s, j) = SpanClose
  THEN [len |-> SkipBuffer(s, j + 1) - i, id |-> id, url |-> url]
  ELSE NoMatch

placeholderPattern(s, i) ==
  IF CellAt(s, i) # SpanOpen \/ CellAt(s, i + 1) \notin {Ids[k] : k \in 1..Len(Ids)}
  THEN NoMatch
  ELSE
    LET q1 == QuoteFrom(s, i + 1)        \* end of [^"]+
        id == Slice(s, i + 1, q1)
    IN IF CellAt(s, q1) # Quote THEN NoMatch
       ELSE
         LET a  == SkipSpace(s, q1 + 1)  \* after \s+
             q2 == QuoteFrom(s, a + 2)   \* end of [^"]*
             withUrl ==
               IF /\ a > q1 + 1
                  /\ CellAt(s, a) = UrlAttr
                  /\ CellAt(s, a + 1) = Quote
                  /\ CellAt(s, q2) = Quote
               THEN MatchTail(s, i, q2 + 1, id, Slice(s, a + 2, q2))
               ELSE NoMatch
         IN IF withUrl.len > 0 THEN withUrl
            ELSE MatchTail(s, i, q1 + 1, id, <<>>)

\* content.matchAll(placeholderPattern): the offsets where a match starts,
\* scanning from offset i on, left to right, matches not overlapping
RECURSIVE MatchAll(_, _)
MatchAll(s, i) ==
  IF i >= Len(s) THEN <<>>
  ELSE LET m == placeholderPattern(s, i)
       IN IF m.len > 0 THEN <<i>> \o MatchAll(s, i + m.len)
          ELSE MatchAll(s, i + 1)

\* `<span class="link-loading-inactive" id="${placeholderId}" url="${url}">Failed to resolve</span>`
inactivePlaceholder(id, url) ==
  <<InactiveOpen>> \o id \o <<Quote, Space, UrlAttr, Quote>> \o url
    \o <<Quote, InactiveClose>>

\* the loop of cleanupOrphanedPlaceholders over orphanedMatches, last to first;
\* the matches were taken from content, the text before the first rewrite
RECURSIVE RewriteOrphans(_, _, _)
RewriteOrphans(s, content, orphans) ==
  IF orphans = <<>> THEN s
  ELSE LET index == orphans[Len(orphans)]
           m == placeholderPattern(content, index)
       IN RewriteOrphans(
            ReplaceRange(s, inactivePlaceholder(m.id, m.url), index, index + m.len),
            content, SubSeq(orphans, 1, Len(orphans) - 1))

\* !this.activePlaceholders.has(fullMatch)
IsOrphan(s, act, index) ==
  Slice(s, index, index + placeholderPattern(s, index).len) \notin act

\* cleanupOrphanedPlaceholders(): the document it leaves
cleanupOrphanedPlaceholders(s, act) ==
  RewriteOrphans(s, s, SelectSeq(MatchAll(s, 0), LAMBDA index : IsOrphan(s, act, index)))

\* s.lastIndexOf(sub)
LastIndexOf(s, sub) ==
  LET hits == {i \in 0..(Len(s) - Len(sub)) : Slice(s, i, i + Len(sub)) = sub}
  IN IF hits = {} THEN -1 ELSE CHOOSE i \in hits : \A j \in hits : i >= j

\* a replacePlaceholder that replaces the last occurrence
replacePlaceholderLast(s, placeholder, newText) ==
  IF Includes(s, placeholder)
  THEN [doc |-> ReplaceRange(s, newText, LastIndexOf(s, placeholder),
                             LastIndexOf(s, placeholder) + Len(placeholder)),
        didReplace |-> TRUE]
  ELSE [doc |-> s, didReplace |-> FALSE]

\* replacePlaceholder(placeholder, newText, editor): the document it leaves
\* and its return value didReplace
replacePlaceholder(s, placeholder, newText) ==
  IF Includes(s, placeholder)
  THEN [doc |-> ReplaceRange(s, newText, IndexOf(s, placeholder),
                             IndexOf(s, placeholder) + Len(placeholder)),
        didReplace |-> TRUE]
  ELSE [doc |-> s, didReplace |-> FALSE]

(* ------------------------------------------------------- URL and blacklist *)
\* the scheme cells a text may start with
Schemes == {"http://", "https://", "ftp://"}

\* an isLink that takes every scheme
isLinkAnyScheme(text) == Len(text) > 0 /\ text[1] \in Schemes

\* isLink: text.match(/^https?:\/\//)
isLink(text) == Len(text) > 0 /\ text[1] \in {"http://", "https://"}

\* new URL(text) for a text that starts with a scheme cell: the host runs to
\* the first "/", "?" or "#"; the parse throws on an empty host or a host
\* with a space in it
HostEnd(text) ==
  LET js == {j \in 1..(Len(text) - 1) : text[j + 1] \in {"/", "?", "#"}}
  IN IF js = {} THEN Len(text) ELSE CHOOSE j \in js : \A k \in js : j <= k
hostname(text) == Slice(text, 1, HostEnd(text))
UrlParses(text) ==
  /\ Len(text) > 0 /\ text[1] \in Schemes
  /\ hostname(text) # <<>>
  /\ \A k \in 1..Len(hostname(text)) : ~IsSpace(hostname(text)[k])

\* s.split(",")
RECURSIVE Split(_)
Split(s) ==
  LET i == IndexOf(s, <<",">>)
  IN IF i = -1 THEN <<s>>
     ELSE <<Slice(s, 0, i)>> \o Split(Slice(s, i + 1, Len(s)))

\* s.trim()
RECURSIVE Trim(_)
Trim(s) ==
  IF s = <<>> THEN s
  ELSE IF IsSpace(s[1]) THEN Trim(Tail(s))
  ELSE IF IsSpace(s[Len(s)]) THEN Trim(SubSeq(s, 1, Len(s) - 1))
  ELSE s

\* isBlacklisted without the trim of the entries
isBlacklistedNoTrim(text, blacklistedDomains) ==
  IF ~UrlParses(text) THEN TRUE
  ELSE LET parts == Split(blacklistedDomains)
           blacklist == {parts[k] : k \in 1..Len(parts)} \ {<<>>}
       IN \E domain \in blacklist : Includes(hostname(text), domain)

\* isBlacklisted(text) with settings.blacklistedDomains = blacklistedDomains
isBlacklisted(text, blacklistedDomains) ==
  IF ~UrlParses(text) THEN TRUE
  ELSE LET parts == Split(blacklistedDomains)
           blacklist == {Trim(parts[k]) : k \in 1..Len(parts)} \ {<<>>}
       IN \E domain \in blacklist : Includes(hostname(text), domain)

(* --------------------------------------------------------- paste context *)
\* offset where the line holding offset cur starts, and where it ends
LineStart(s, cur) ==
  LET js == {j \in 1..cur : s[j] = Newline}
  IN IF js = {} THEN 0 ELSE CHOOSE j \in js : \A k \in js : j >= k
LineEnd(s, cur) ==
  LET js == {j \in cur..(Len(s) - 1) : s[j + 1] = Newline}
  IN IF js = {} THEN Len(s) ELSE CHOOSE j \in js : \A k \in js : j <= k
\* cursor.line: the number of line breaks before the cursor
CursorLine(s, cur) == Cardinality({j \in 1..cur : s[j] = Newline})

\* editor.getValue().split('\n')
RECURSIVE Lines(_)
Lines(s) ==
  LET i == IndexOf(s, <<Newline>>)
  IN IF i = -1 THEN <<s>>
     ELSE <<Slice(s, 0, i)>> \o Lines(Slice(s, i + 1, Len(s)))

\* (s.match(/pat/g) || []).length for a literal pat: matches do not overlap.
\* A cell matches a one-character pattern cell when it is that character
\* or, for ">", a lexeme that starts with it.
CellIs(c, ch) ==
  \/ c = ch
  \/ ch = ">" /\ c \in {SpanClose, InactiveClose}
LiteralAt(s, i, pat) ==
  /\ i + Len(pat) <= Len(s)
  /\ \A k \in 1..Len(pat) : CellIs(s[i + k], pat[k])
RECURSIVE CountMatches(_, _, _)
CountMatches(s, i, pat) ==
  IF i + Len(pat) > Len(s) THEN 0
  ELSE IF LiteralAt(s, i, pat) THEN 1 + CountMatches(s, i + Len(pat), pat)
  ELSE CountMatches(s, i + 1, pat)

Fence == <<Backtick, Backtick, Backtick>>
Dashes == <<"-", "-", "-">>

\* a loop over the lines above the cursor that never finds a fence
InCodeBlockNever(allLines, i) == FALSE

\* the loop over the lines above the cursor: inCodeBlock after line i - 1
RECURSIVE InCodeBlock(_, _)
InCodeBlock(allLines, i) ==
  IF i = 0 THEN FALSE
  ELSE LET trimmedLine == Trim(allLines[i])
           before == InCodeBlock(allLines, i - 1)
       IN IF LiteralAt(trimmedLine, 0, Fence) THEN ~before ELSE before

\* shouldReplace without the check for the parentheses of a markdown link
shouldReplaceNoLinkTarget(s, cur, selected, text) ==
  LET lineNo == CursorLine(s, cur)
      line == Slice(s, LineStart(s, cur), LineEnd(s, cur))
      textBeforeCursor == Slice(s, LineStart(s, cur), cur)
      n == Len(textBeforeCursor)
      charAfterCursor == IF cur < LineEnd(s, cur) THEN s[cur + 1] ELSE ""
      charBeforeCursor == IF n > 0 THEN textBeforeCursor[n] ELSE ""
      backticksBefore == CountMatches(textBeforeCursor, 0, <<Backtick>>)
      allLines == Lines(s)
      inFrontmatter ==
        /\ Trim(allLines[1]) = Dashes
        /\ \A i \in 1..lineNo : Trim(allLines[i + 1]) # Dashes
      fullTextBeforeCursor == Slice(s, 0, LineStart(s, cur)) \o <<Newline>> \o textBeforeCursor
      openComments == CountMatches(fullTextBeforeCursor, 0, <<"<", "!", "-", "-">>)
      closeComments == CountMatches(fullTextBeforeCursor, 0, <<"-", "-", ">">>)
  IN IF ~isLink(text) THEN FALSE
     ELSE IF selected THEN TRUE
     ELSE IF backticksBefore % 2 = 1 THEN FALSE
     ELSE IF charBeforeCursor = Backtick \/ charAfterCursor = Backtick THEN FALSE
     ELSE IF InCodeBlock(allLines, lineNo) THEN FALSE
     ELSE IF lineNo = 0 /\ Trim(line) = Dashes THEN FALSE
     ELSE IF lineNo > 0 /\ inFrontmatter THEN FALSE
     ELSE IF openComments > closeComments THEN FALSE
     ELSE TRUE

\* shouldReplace without the checks for inline code
shouldReplaceNoInlineCode(s, cur, selected, text) ==
  LET lineNo == CursorLine(s, cur)
      line == Slice(s, LineStart(s, cur), LineEnd(s, cur))
      textBeforeCursor == Slice(s, LineStart(s, cur), cur)
      n == Len(textBeforeCursor)
      charAfterCursor == IF cur < LineEnd(s, cur) THEN s[cur + 1] ELSE ""
      \* textBeforeCursor.match(/\[.*?\]\($/)
      potentialLinkMatch ==
        /\ n >= 3
        /\ textBeforeCursor[n] = "("
        /\ textBeforeCursor[n - 1] = "]"
        /\ \E k \in 1..(n - 2) : textBeforeCursor[k] = "["
      allLines == Lines(s)
      inFrontmatter ==
        /\ Trim(allLines[1]) = Dashes
        /\ \A i \in 1..lineNo : Trim(allLines[i + 1]) # Dashes
      fullTextBeforeCursor == Slice(s, 0, LineStart(s, cur)) \o <<Newline>> \o textBeforeCursor
      openComments == CountMatches(fullTextBeforeCursor, 0, <<"<", "!", "-", "-">>)
      closeComments == CountMatches(fullTextBeforeCursor, 0, <<"-", "-", ">">>)
  IN IF ~isLink(text) THEN FALSE
     ELSE IF selected THEN TRUE
     ELSE IF potentialLinkMatch /\ charAfterCursor = ")" THEN FALSE
     ELSE IF InCodeBlock(allLines, lineNo) THEN FALSE
     ELSE IF lineNo = 0 /\ Trim(line) = Dashes THEN FALSE
     ELSE IF lineNo > 0 /\ inFrontmatter THEN FALSE
     ELSE IF openComments > closeComments THEN FALSE
     ELSE TRUE

\* shouldReplace without the checks for YAML frontmatter
shouldReplaceNoFrontmatter(s, cur, selected, text) ==
  LET lineNo == CursorLine(s, cur)
      textBeforeCursor == Slice(s, LineStart(s, cur), cur)
      n == Len(textBeforeCursor)
      charAfterCursor == IF cur < LineEnd(s, cur) THEN s[cur + 1] ELSE ""
      charBeforeCursor == IF n > 0 THEN textBeforeCursor[n] ELSE ""
      \* textBeforeCursor.match(/\[.*?\]\($/)
      potentialLinkMatch ==
        /\ n >= 3
        /\ textBeforeCursor[n] = "("
        /\ textBeforeCursor[n - 1] = "]"
        /\ \E k \in 1..(n - 2) : textBeforeCursor[k] = "["
      backticksBefore == CountMatches(textBeforeCursor, 0, <<Backtick>>)
      allLines == Lines(s)
      fullTextBeforeCursor == Slice(s, 0, LineStart(s, cur)) \o <<Newline>> \o textBeforeCursor
      openComments == CountMatches(fullTextBeforeCursor, 0, <<"<", "!", "-", "-">>)
      closeComments == CountMatches(fullTextBeforeCursor, 0, <<"-", "-", ">">>)
  IN IF ~isLink(text) THEN FALSE
     ELSE IF selected THEN TRUE
     ELSE IF potentialLinkMatch /\ charAfterCursor = ")" THEN FALSE
     ELSE IF backticksBefore % 2 = 1 THEN FALSE
     ELSE IF charBeforeCursor = Backtick \/ charAfterCursor = Backtick THEN FALSE
     ELSE IF InCodeBlock(allLines, lineNo) THEN FALSE
     ELSE IF openComments > closeComments THEN FALSE
     ELSE TRUE

\* shouldReplace with the comment openers and closers counted in the whole
\* text
shouldReplaceWholeText(s, cur, selected, text) ==
  LET lineNo == CursorLine(s, cur)
      line == Slice(s, LineStart(s, cur), LineEnd(s, cur))
      textBeforeCursor == Slice(s, LineStart(s, cur), cur)
      n == Len(textBeforeCursor)
      charAfterCursor == IF cur < LineEnd(s, cur) THEN s[cur + 1] ELSE ""
      charBeforeCursor == IF n > 0 THEN textBeforeCursor[n] ELSE ""
      \* textBeforeCursor.match(/\[.*?\]\($/)
      potentialLinkMatch ==
        /\ n >= 3
        /\ textBeforeCursor[n] = "("
        /\ textBeforeCursor[n - 1] = "]"
        /\ \E k \in 1..(n - 2) : textBeforeCursor[k] = "["
      backticksBefore == CountMatches(textBeforeCursor, 0, <<Backtick>>)
      allLines == Lines(s)
      inFrontmatter ==
        /\ Trim(allLines[1]) = Dashes
        /\ \A i \in 1..lineNo : Trim(allLines[i + 1]) # Dashes
      fullTextBeforeCursor == s
      openComments == CountMatches(fullTextBeforeCursor, 0, <<"<", "!", "-", "-">>)
      closeComments == CountMatches(fullTextBeforeCursor, 0, <<"-", "-", ">">>)
  IN IF ~isLink(text) THEN FALSE
     ELSE IF selected THEN TRUE
     ELSE IF potentialLinkMatch /\ charAfterCursor = ")" THEN FALSE
     ELSE IF backticksBefore % 2 = 1 THEN FALSE
     ELSE IF charBeforeCursor = Backtick \/ charAfterCursor = Backtick THEN FALSE
     ELSE IF InCodeBlock(allLines, lineNo) THEN FALSE
     ELSE IF lineNo = 0 /\ Trim(line) = Dashes THEN FALSE
     ELSE IF lineNo > 0 /\ inFrontmatter THEN FALSE
     ELSE IF openComments > closeComments THEN FALSE
     ELSE TRUE

\* shouldReplace(editor, text): cur is the cursor offset, selected is
\* editor.somethingSelected()
shouldReplace(s, cur, selected, text) ==
  LET lineNo == CursorLine(s, cur)
      line == Slice(s, LineStart(s, cur), LineEnd(s, cur))
      textBeforeCursor == Slice(s, LineStart(s, cur), cur)
      n == Len(textBeforeCursor)
      charAfterCursor == IF cur < LineEnd(s, cur) THEN s[cur + 1] ELSE ""
      charBeforeCursor == IF n > 0 THEN textBeforeCursor[n] ELSE ""
      \* textBeforeCursor.match(/\[.*?\]\($/)
      potentialLinkMatch ==
        /\ n >= 3
        /\ textBeforeCursor[n] = "("
        /\ textBeforeCursor[n - 1] = "]"
        /\ \E k \in 1..(n - 2) : textBeforeCursor[k] = "["
      backticksBefore == CountMatches(textBeforeCursor, 0, <<Backtick>>)
      allLines == Lines(s)
      inFrontmatter ==
        /\ Trim(allLines[1]) = Dashes
        /\ \A i \in 1..lineNo : Trim(allLines[i + 1]) # Dashes
      fullTextBeforeCursor == Slice(s, 0, LineStart(s, cur)) \o <<Newline>> \o textBeforeCursor
      openComments == CountMatches(fullTextBeforeCursor, 0, <<"<", "!", "-", "-">>)
      closeComments == CountMatches(fullTextBeforeCursor, 0, <<"-", "-", ">">>)
  IN IF ~isLink(text) THEN FALSE
     ELSE IF selected THEN TRUE
     ELSE IF potentialLinkMatch /\ charAfterCursor = ")" THEN FALSE
     ELSE IF backticksBefore % 2 = 1 THEN FALSE
     ELSE IF charBeforeCursor = Backtick \/ charAfterCursor = Backtick THEN FALSE
     ELSE IF InCodeBlock(allLines, lineNo) THEN FALSE
     ELSE IF lineNo = 0 /\ Trim(line) = Dashes THEN FALSE
     ELSE IF lineNo > 0 /\ inFrontmatter THEN FALSE
     ELSE IF openComments > closeComments THEN FALSE
     ELSE TRUE

(* -------------------------------------------------------- template engine *)
\* Metadata: a function from field names (one cell each) to cell sequences;
\* a field outside its domain is undefined.
Undefined == <<"<undefined>">>
Lookup(M, name) ==
  IF Len(name) = 1 /\ name[1] \in DOMAIN M THEN M[name[1]] ELSE Undefined

\* str.replace(/\\:/g, ':'): every backslash-colon pair becomes a colon
RECURSIVE Unescape(_)
Unescape(s) ==
  IF s = <<>> THEN s
  ELSE IF Len(s) >= 2 /\ s[1] = "\\" /\ s[2] = ":" THEN <<":">> \o Unescape(SubSeq(s, 3, Len(s)))
  ELSE <<s[1]>> \o Unescape(Tail(s))

\* the two for-loops of the conditional branch: the first i >= 1 (0-based)
\* with branches[i] = ':' and branches[i - 1] # backslash; -1 if none
SplitColon(branches) ==
  LET is == {i \in 1..(Len(branches) - 1) :
               branches[i + 1] = ":" /\ branches[i] # "\\"}
  IN IF is = {} THEN -1 ELSE CHOOSE i \in is : \A k \in is : i <= k

\* key.match(/^([^?|]+)\?(.*)$/): offset of the "?" that ends the field
\* name, -1 when the key is no conditional
ConditionalAt(key) ==
  LET qs == {i \in 0..(Len(key) - 1) : key[i + 1] \in {"?", "|"}}
      q == IF qs = {} THEN -1 ELSE CHOOSE i \in qs : \A k \in qs : i <= k
  IN IF /\ q >= 1
        /\ key[q + 1] = "?"
        /\ \A k \in (q + 2)..Len(key) : key[k] # Newline
     THEN q ELSE -1

\* moment(value).format(format), an external library: an opaque rendering
MomentFormat(value, format) == <<"<date>">>
\* moment(value).isValid(): a value of one plain cell stands for a date
MomentIsValid(value) == Len(value) = 1 /\ value[1] = "2024-01-02"
dateFields == {"upload_date", "created_at"}

\* the replacement callback of formatTemplate for one {key}
Substitute(key, M, url) ==
  LET q == ConditionalAt(key)
  IN IF q # -1
     THEN LET fieldName == Trim(Slice(key, 0, q))
              branches == Slice(key, q + 1, Len(key))
              fieldValue == IF fieldName = <<"url">> THEN url ELSE Lookup(M, fieldName)
              isPresent == fieldValue # Undefined /\ fieldValue # <<>>
              c == SplitColon(branches)
          IN IF ~isPresent
             THEN IF c # -1 THEN Unescape(Slice(branches, c + 1, Len(branches))) ELSE <<>>
             ELSE IF c # -1 THEN Unescape(Slice(branches, 0, c)) ELSE Unescape(branches)
     ELSE LET parts == LET i == IndexOf(key, <<"|">>)
                       IN IF i = -1 THEN <<key>>
                          ELSE <<Slice(key, 0, i)>> \o
                                 (LET rest == Slice(key, i + 1, Len(key))
                                      j == IndexOf(rest, <<"|">>)
                                  IN <<IF j = -1 THEN rest ELSE Slice(rest, 0, j)>>)
              variable == Trim(parts[1])
              format == IF Len(parts) > 1 THEN Trim(parts[2]) ELSE <<>>
              value == Lookup(M, variable)
          IN IF variable = <<"url">> THEN url
             ELSE IF value = Undefined THEN <<>>
             ELSE IF /\ format # <<>>
                     /\ variable[1] \in dateFields
                     /\ MomentIsValid(value)
             THEN MomentFormat(value, format)
             ELSE value

\* one pass of result.replace(/{([^{}]+?)}/g, callback)
RECURSIVE ReplacePass(_, _, _)
ReplacePass(s, M, url) ==
  IF s = <<>> THEN s
  ELSE IF s[1] # "{" THEN <<s[1]>> \o ReplacePass(Tail(s), M, url)
  ELSE LET bs == {j \in 2..Len(s) : s[j] \in {"{", "}"}}
           j == IF bs = {} THEN 0 ELSE CHOOSE x \in bs : \A k \in bs : x <= k
       IN IF j > 2 /\ s[j] = "}"
          THEN Substitute(SubSeq(s, 2, j - 1), M, url)
                 \o ReplacePass(SubSeq(s, j + 1, Len(s)), M, url)
          ELSE <<s[1]>> \o ReplacePass(Tail(s), M, url)

(* ------------------------------------------------------------ link wrapper *)
\* textToProcess.match(/(?<!\\)\[(.*?)(?<!\\)\]/): [from, to] are the
\* 0-based offsets of the opening and the closing bracket, from = -1 if none
Unescaped(s, i, ch) == s[i + 1] = ch /\ (i = 0 \/ s[i] # "\\")
LinkMatch(s) ==
  LET pairs == {p \in (0..(Len(s) - 1)) \X (0..(Len(s) - 1)) :
                  /\ p[1] < p[2]
                  /\ Unescaped(s, p[1], "[")
                  /\ Unescaped(s, p[2], "]")
                  /\ \A k \in (p[1] + 1)..(p[2] - 1) :
                       s[k + 1] # Newline /\ ~Unescaped(s, k, "]")}
  IN IF pairs = {} THEN <<-1, -1>>
     ELSE CHOOSE p \in pairs : \A r \in pairs : p[1] <= r[1]

\* a wrapInMarkdownLink that strips a second embed marker too
wrapInMarkdownLinkTwoMarkers(formattedText, url) ==
  LET isEmbed == formattedText # <<>> /\ formattedText[1] = "!"
      second == Len(formattedText) > 1 /\ formattedText[2] = "!"
      textToProcess == IF isEmbed /\ second THEN Tail(Tail(formattedText))
                       ELSE IF isEmbed THEN Tail(formattedText) ELSE formattedText
      m == LinkMatch(textToProcess)
      whole == Slice(textToProcess, m[1], m[2] + 1)
      linkContent == Slice(textToProcess, m[1] + 1, m[2])
      firstBracketIndex == IndexOf(textToProcess, whole)
      suffix == Slice(textToProcess, firstBracketIndex + Len(whole), Len(textToProcess))
      link == IF m[1] # -1 /\ linkContent # <<>>
              THEN <<"[">> \o linkContent \o <<"]", "(">> \o url \o <<")">> \o suffix
              ELSE Trim(textToProcess)
  IN IF isEmbed THEN <<"!">> \o link ELSE link

\* wrapInMarkdownLink(formattedText, url)
wrapInMarkdownLink(formattedText, url) ==
  LET isEmbed == formattedText # <<>> /\ formattedText[1] = "!"
      textToProcess == IF isEmbed THEN Tail(formattedText) ELSE formattedText
      m == LinkMatch(textToProcess)
      whole == Slice(textToProcess, m[1], m[2] + 1)
      linkContent == Slice(textToProcess, m[1] + 1, m[2])
      firstBracketIndex == IndexOf(textToProcess, whole)
      suffix == Slice(textToProcess, firstBracketIndex + Len(whole), Len(textToProcess))
      link == IF m[1] # -1 /\ linkContent # <<>>
              THEN <<"[">> \o linkContent \o <<"]", "(">> \o url \o <<")">> \o suffix
              ELSE Trim(textToProcess)
  IN IF isEmbed THEN <<"!">> \o link ELSE link

(* ------------------------------------------------------------ failure mode *)
\* FailureMode.format with the two modes taken for each other
FailureModeFormatSwapped(mode, text) ==
  IF mode = "revert"
  THEN <<"[", "Failed to fetch title", "]", "(">> \o text \o <<")">>
  ELSE text

\* FailureMode.format(mode, text)
FailureModeFormat(mode, text) ==
  IF mode = "alert"
  THEN <<"[", "Failed to fetch title", "]", "(">> \o text \o <<")">>
  ELSE text

(* ---------------------------------------------------------------- clients *)
\* the CLIENTS array, in order; DefaultClient is last
CLIENTS == <<"youtube", "youtube-music", "image", "twitter", "reddit", "github", "default">>

WordCells == {"v", "u", "r"}
DigitCells == {"1"}
ImageExt == {".png", ".jpg"}
IsScheme(url) == Len(url) > 0 /\ url[1] \in {"http://", "https://"}
HostIs(url, hosts) == IsScheme(url) /\ Len(url) >= 3 /\ url[2] \in hosts /\ url[3] = "/"

\* client.matches(url)
matches(client, url) ==
  CASE client = "youtube" -> HostIs(url, {"www.youtube.com", "youtu.be"})
    [] client = "youtube-music" -> HostIs(url, {"music.youtube.com"})
    [] client = "image" -> Len(url) > 0 /\ url[Len(url)] \in ImageExt
    [] client = "twitter" ->
         /\ HostIs(url, {"twitter.com", "x.com"})
         /\ Len(url) >= 8
         /\ url[4] \in WordCells /\ url[5] = "/" /\ url[6] = "status"
         /\ url[7] = "/" /\ url[8] \in DigitCells
    [] client = "reddit" ->
         /\ HostIs(url, {"www.reddit.com", "reddit.com"})
         /\ Len(url) >= 8
         /\ url[4] = "r" /\ url[5] = "/" /\ url[6] \in WordCells
         /\ url[7] = "/" /\ url[8] = "comments/"
    [] client = "github" ->
         /\ HostIs(url, {"github.com"})
         /\ Len(url) \in {6, 7}
         /\ url[4] \in WordCells /\ url[5] = "/" /\ url[6] \in WordCells
         /\ (Len(url) = 7 => url[7] = "/")
    [] client = "default" -> TRUE

\* a find that returns the last client that matches
FindLast(url) ==
  LET hits == {k \in 1..Len(CLIENTS) : matches(CLIENTS[k], url)}
  IN IF hits = {} THEN 0 ELSE CHOOSE k \in hits : \A j \in hits : k >= j

\* CLIENTS.find(client => client.matches(clipboardText)): its index, 0 for
\* undefined
Find(url) ==
  LET hits == {k \in 1..Len(CLIENTS) : matches(CLIENTS[k], url)}
  IN IF hits = {} THEN 0 ELSE CHOOSE k \in hits : \A j \in hits : k <= j

\* client.defaultFormat
defaultFormat(client) ==
  CASE client = "youtube" -> <<"[", "{", "title", "}", "]", " by ", "{", "channel", "}">>
    [] client = "youtube-music" -> <<"[", "{", "title", "}", "]", " - ", "{", "artist", "}">>
    [] client = "image" -> <<"!", "[", "{", "title", "}", "]">>
    [] client = "twitter" -> <<"[", "{", "text", "}", "]", " - @", "{", "author", "}">>
    [] client = "reddit" -> <<"[", "{", "title", "}", "]", " - r/", "{", "subreddit", "}">>
    [] client = "github" ->
         <<"[", "{", "owner", "}", "/", "{", "repo", "}", "]", ": ", "{", "description", "}">>
    [] client = "default" -> <<"[", "{", "title", "}", "]">>

(* ================================================================ state == *)
VARIABLES
  doc,        \* editor.getValue(): the document text
  active,     \* this.activePlaceholders
  settings,   \* this.settings
  ops,        \* the handleFormat invocations: ops[i] is the i-th started
  fmt,        \* the formatTemplate loop that is running, if any
  edits,      \* user edits made so far
  last        \* the paste event, if handlePaste ran last

vars == <<doc, active, settings, ops, fmt, edits, last>>

OpIds == 1..MaxOps

\* V8 refuses to build a string longer than 2^29 - 24 characters (RangeError:
\* Invalid string length); scaled down to cells
MaxStrLen == 10

(* ------------------------------------------------------------------ inputs *)
UrlPlain == <<"https://", "a.io">>
\* a video address copied together with the quote that closed it
UrlTube == <<"https://", "youtu.be", "/", Quote>>
UrlBlack == <<"https://", "b", ".co">>
UrlBroken == <<"https://", Space, "x">>
Clipboard == {UrlPlain, UrlTube, UrlBlack, UrlBroken}

\* what fetchMetadata may resolve to, by client
MetaPlain == [title |-> <<"T">>]
MetaTube == [title |-> <<"T">>, channel |-> <<"C">>]
\* a video titled {channel} on a channel named {title}
MetaCycle == [title |-> <<"{", "channel", "}">>, channel |-> <<"{", "title", "}">>]
\* a page titled {title}{title}
MetaGrow == [title |-> <<"{", "title", "}", "{", "title", "}">>]
Metadata(client) ==
  IF client = "youtube" THEN {MetaTube, MetaCycle} ELSE {MetaPlain, MetaGrow}

\* a placeholder a crashed earlier session left in the document
StalePlaceholder == generatePlaceholder(generateUniqueToken(StaleId, UrlPlain))
InitDocs == {<<Backtick, Newline, "t">> \o StalePlaceholder}

\* the blacklist the user typed: " .co,, "
Blacklist == <<Space, ".co", ",", ",", Space>>

IdleOp == [st |-> "idle", text |-> <<>>, placeholder |-> <<>>, client |-> "",
           fetch |-> "none", timer |-> "none", how |-> "", didReplace |-> FALSE,
           log |-> <<>>]
\* no formatTemplate call is running
IdleFmt == [pc |-> "idle", op |-> 0, result |-> <<>>, previousResult |-> <<>>,
            metadata |-> <<>>, url |-> <<>>]

\* formatTemplate(template, metadata, url) entered: let result = template;
\* let previousResult = ''
formatTemplate(op, template, metadata, url) ==
  [pc |-> "loop", op |-> op, result |-> template, previousResult |-> <<>>,
   metadata |-> metadata, url |-> url]

\* one evaluation of while (result !== previousResult) and, if it holds, of
\* the loop body; "done" is the return, "thrown" the RangeError of a result
\* longer than a string can be
LoopStep(f) ==
  LET next == ReplacePass(f.result, f.metadata, f.url)
  IN IF f.result = f.previousResult THEN [f EXCEPT !.pc = "done"]
     ELSE IF Len(next) > MaxStrLen THEN [f EXCEPT !.pc = "thrown"]
     ELSE [f EXCEPT !.previousResult = f.result, !.result = next]
NoEvent == [kind |-> "none"]

Init ==
  /\ doc \in InitDocs
  /\ active = {}
  /\ settings \in {[autoLink |-> TRUE, pasteIntoSelection |-> FALSE,
                    failureMode |-> "revert", blacklistedDomains |-> Blacklist],
                   [autoLink |-> TRUE, pasteIntoSelection |-> TRUE,
                    failureMode |-> "alert", blacklistedDomains |-> Blacklist]}
  /\ ops = [i \in OpIds |-> IdleOp]
  /\ fmt = IdleFmt
  /\ edits = 0
  /\ last = NoEvent

Started == {i \in OpIds : ops[i].st # "idle"}
\* the event loop is free: no handler is in the middle of formatTemplate
Free == fmt.pc = "idle"

(* ---------------------------------------------------------------- handlers *)
\* the tail of handleFormat with a replacePlaceholder that returns early,
\* before activePlaceholders.delete, when the placeholder is not found
FinishKeepsActive(i, newText, how) ==
  LET r == replacePlaceholder(doc, ops[i].placeholder, newText)
      act == IF r.didReplace THEN active \ {ops[i].placeholder} ELSE active
  IN /\ active' = act
     /\ doc' = IF r.didReplace THEN r.doc ELSE cleanupOrphanedPlaceholders(r.doc, act)
     /\ ops' = [ops EXCEPT ![i].st = "done", ![i].how = how,
                           ![i].didReplace = r.didReplace,
                           ![i].fetch = IF how = "timeout" THEN @ ELSE "settled",
                           ![i].timer = IF how = "timeout" THEN "fired" ELSE @,
                           ![i].log = @ \o <<"replace">>
                                        \o (IF r.didReplace THEN <<>> ELSE <<"sweep">>)]

\* the tail of handleFormat: replacePlaceholder(placeholder, newText, editor),
\* then cleanupOrphanedPlaceholders() if (!didReplace)
Finish(i, newText, how) ==
  LET r == replacePlaceholder(doc, ops[i].placeholder, newText)
      act == active \ {ops[i].placeholder}
  IN /\ active' = act
     /\ doc' = IF r.didReplace THEN r.doc ELSE cleanupOrphanedPlaceholders(r.doc, act)
     /\ ops' = [ops EXCEPT ![i].st = "done", ![i].how = how,
                           ![i].didReplace = r.didReplace,
                           ![i].fetch = IF how = "timeout" THEN @ ELSE "settled",
                           ![i].timer = IF how = "timeout" THEN "fired" ELSE @,
                           ![i].log = @ \o <<"replace">>
                                        \o (IF r.didReplace THEN <<>> ELSE <<"sweep">>)]

\* the catch block of handleFormat
Catch(i, how) ==
  Finish(i, FailureModeFormat(settings.failureMode, ops[i].text), how)

\* handleFormat with the fetch started before the placeholder is added and
\* inserted
handleFormatFetchFirst(clipboardText, from, to) ==
  LET i == Cardinality(Started) + 1
      token == generateUniqueToken(Ids[i], clipboardText)
      placeholder == generatePlaceholder(token)
      k == Find(clipboardText)
  IN /\ i \in OpIds
     /\ active' = active \cup {placeholder}
     /\ doc' = ReplaceRange(doc, placeholder, from, to)
     /\ ops' = [ops EXCEPT ![i] =
                  [st |-> "inflight", text |-> clipboardText,
                   placeholder |-> placeholder, client |-> CLIENTS[k],
                   fetch |-> "pending", timer |-> "armed", how |-> "",
                   didReplace |-> FALSE,
                   log |-> <<"timer", "find", "fetch", "add", "insert">>]]

\* handleFormat(clipboardText, editor) up to its await: the selection is
\* [from, to)
handleFormat(clipboardText, from, to) ==
  LET i == Cardinality(Started) + 1
      token == generateUniqueToken(Ids[i], clipboardText)
      placeholder == generatePlaceholder(token)
      k == Find(clipboardText)
  IN /\ i \in OpIds
     /\ active' = active \cup {placeholder}
     /\ doc' = ReplaceRange(doc, placeholder, from, to)
     /\ ops' = [ops EXCEPT ![i] =
                  [st |-> "inflight", text |-> clipboardText,
                   placeholder |-> placeholder, client |-> CLIENTS[k],
                   fetch |-> "pending", timer |-> "armed", how |-> "",
                   didReplace |-> FALSE,
                   log |-> <<"add", "insert", "timer", "find", "fetch">>]]

\* the editor's own paste, when the event's default is not prevented
DefaultPaste(text, from, to) ==
  /\ doc' = ReplaceRange(doc, text, from, to)
  /\ UNCHANGED <<active, ops>>

\* a handlePaste that adds and inserts the placeholder before the blacklist
\* check and, for a blacklisted text, writes the text over the placeholder
\* and returns
handlePastePlaceholderFirst(text, from, to) ==
  /\ Free
  /\ LET selected == from # to
         replace ==
           /\ settings.autoLink
           /\ ~(settings.pasteIntoSelection /\ selected)
           /\ shouldReplace(doc, to, selected, text)
         blacklisted == isBlacklisted(text, settings.blacklistedDomains)
         i == Cardinality(Started) + 1
         placeholder == generatePlaceholder(generateUniqueToken(Ids[i], text))
     IN /\ IF replace /\ ~blacklisted
           THEN handleFormat(text, from, to) /\ UNCHANGED edits
           ELSE IF replace /\ i \in OpIds
           THEN /\ active' = active \cup {placeholder}
                /\ doc' = ReplaceRange(doc, text \o <<BUFFER>>, from, to)
                /\ UNCHANGED <<ops, edits>>
           ELSE /\ edits < MaxEdits
                /\ edits' = edits + 1
                /\ DefaultPaste(text, from, to)
        /\ last' = [kind |-> "paste", text |-> text, from |-> from, to |-> to,
                    preventDefault |-> replace]
  /\ UNCHANGED <<settings, fmt>>

\* a handlePaste that calls evt.preventDefault() before shouldReplace: a
\* paste the classifier passes through is suppressed
handlePastePreventFirst(text, from, to) ==
  /\ Free
  /\ LET selected == from # to
         enabled == settings.autoLink /\ ~(settings.pasteIntoSelection /\ selected)
         intercept ==
           /\ enabled
           /\ shouldReplace(doc, to, selected, text)
           /\ ~isBlacklisted(text, settings.blacklistedDomains)
     IN /\ IF intercept
           THEN handleFormat(text, from, to) /\ UNCHANGED edits
           ELSE IF enabled
           THEN UNCHANGED <<doc, active, ops, edits>>
           ELSE /\ edits < MaxEdits
                /\ edits' = edits + 1
                /\ DefaultPaste(text, from, to)
        /\ last' = [kind |-> "paste", text |-> text, from |-> from, to |-> to,
                    preventDefault |-> enabled]
  /\ UNCHANGED <<settings, fmt>>

\* handlePaste with a shouldReplace that is not told of the selection
handlePasteNoSelection(text, from, to) ==
  /\ Free
  /\ LET selected == from # to
         intercept ==
           /\ settings.autoLink
           /\ ~(settings.pasteIntoSelection /\ selected)      \* shouldOverride
           /\ shouldReplace(doc, to, FALSE, text)
           /\ ~isBlacklisted(text, settings.blacklistedDomains)
     IN /\ IF intercept
           THEN handleFormat(text, from, to) /\ UNCHANGED edits
           ELSE /\ edits < MaxEdits
                /\ edits' = edits + 1
                /\ DefaultPaste(text, from, to)
        /\ last' = [kind |-> "paste", text |-> text, from |-> from, to |-> to,
                    preventDefault |-> intercept]
  /\ UNCHANGED <<settings, fmt>>

\* handlePaste(evt, editor): the clipboard holds text, the selection is
\* [from, to)
handlePaste(text, from, to) ==
  /\ Free
  /\ LET selected == from # to
         intercept ==
           /\ settings.autoLink
           /\ ~(settings.pasteIntoSelection /\ selected)      \* shouldOverride
           /\ shouldReplace(doc, to, selected, text)
           /\ ~isBlacklisted(text, settings.blacklistedDomains)
     IN /\ IF intercept
           THEN handleFormat(text, from, to) /\ UNCHANGED edits
           ELSE /\ edits < MaxEdits
                /\ edits' = edits + 1
                /\ DefaultPaste(text, from, to)
        /\ last' = [kind |-> "paste", text |-> text, from |-> from, to |-> to,
                    preventDefault |-> intercept]
  /\ UNCHANGED <<settings, fmt>>

\* handlePaste(evt, editor) when evt.clipboardData is null or there is no
\* active file: it returns at once and the editor pastes what the event
\* carries
handlePasteReturns(why, text, from, to) ==
  /\ Free
  /\ why \in {"no clipboardData", "no activeFile"}
  /\ settings.autoLink
  /\ edits < MaxEdits
  /\ edits' = edits + 1
  /\ DefaultPaste(text, from, to)
  /\ last' = [kind |-> "paste", text |-> text, from |-> from, to |-> to,
              preventDefault |-> FALSE, returned |-> why]
  /\ UNCHANGED <<settings, fmt>>

\* client.fetchMetadata resolves with metadata M
FetchFulfil(i, M) ==
  /\ Free
  /\ ops[i].fetch = "pending"
  /\ M \in Metadata(ops[i].client)
  /\ IF ops[i].st = "inflight"
     THEN \* the race is won: client.format(metadata, clipboardText, this) starts
          /\ fmt' = formatTemplate(i, defaultFormat(ops[i].client), M, ops[i].text)
          /\ ops' = [ops EXCEPT ![i].fetch = "settled", ![i].log = @ \o <<"format">>]
     ELSE \* the timer won earlier: Promise.race ignores the late result
          /\ ops' = [ops EXCEPT ![i].fetch = "settled"]
          /\ UNCHANGED fmt
  /\ last' = NoEvent
  /\ UNCHANGED <<doc, active, settings, edits>>

\* client.format goes on: one turn of the loop of formatTemplate; after the
\* loop wrapInMarkdownLink and replacePlaceholder, after a throw the catch
FormatStep ==
  /\ fmt.pc = "loop" /\ fmt.op \in OpIds
  /\ LET i == fmt.op
         f == LoopStep(fmt)
     IN CASE f.pc = "done" ->
               /\ Finish(i, wrapInMarkdownLink(f.result, f.url), "link")
               /\ fmt' = IdleFmt
          [] f.pc = "thrown" ->
               /\ Catch(i, "formatThrow")
               /\ fmt' = IdleFmt
          [] OTHER ->
               /\ fmt' = f
               /\ UNCHANGED <<doc, active, ops>>
  /\ last' = NoEvent
  /\ UNCHANGED <<settings, edits>>

\* client.fetchMetadata rejects
FetchReject(i) ==
  /\ Free
  /\ ops[i].fetch = "pending"
  /\ IF ops[i].st = "inflight"
     THEN Catch(i, "fetchError")
     ELSE ops' = [ops EXCEPT ![i].fetch = "settled"] /\ UNCHANGED <<doc, active>>
  /\ last' = NoEvent
  /\ UNCHANGED <<settings, fmt, edits>>

\* the setTimeout callback: reject(new Error('Fetch timeout'))
TimerFire(i) ==
  /\ Free
  /\ ops[i].timer = "armed"
  /\ IF ops[i].st = "inflight"
     THEN Catch(i, "timeout")
     ELSE ops' = [ops EXCEPT ![i].timer = "fired"] /\ UNCHANGED <<doc, active>>
  /\ last' = NoEvent
  /\ UNCHANGED <<settings, fmt, edits>>

\* the file-open callback
FileOpen ==
  /\ Free
  /\ doc' = cleanupOrphanedPlaceholders(doc, active)
  /\ last' = NoEvent
  /\ UNCHANGED <<active, settings, ops, fmt, edits>>

\* the user deletes the text [from, to)
UserDelete(from, to) ==
  /\ Free
  /\ edits < MaxEdits
  /\ from < to
  /\ doc' = ReplaceRange(doc, <<>>, from, to)
  /\ edits' = edits + 1
  /\ last' = NoEvent
  /\ UNCHANGED <<active, settings, ops, fmt>>

\* where the user pastes: at the end of the document, with nothing selected
PasteRanges == {<<Len(doc), Len(doc)>>}

\* what the user deletes: a zero-width space, or the whole span of a
\* placeholder with or without the zero-width space after it
TokenRanges ==
  LET ps == {ops[i].placeholder : i \in Started}
  IN UNION {LET a == IndexOf(doc, SubSeq(p, 1, Len(p) - 1))
            IN IF a = -1 THEN {}
               ELSE {<<a, a + Len(p) - 1>>} \cup
                    (IF Includes(doc, p) THEN {<<a, a + Len(p)>>} ELSE {}) : p \in ps}
DeleteRanges ==
  {<<a, a + 1>> : a \in {b \in 0..(Len(doc) - 1) : doc[b + 1] = BUFFER}}
    \cup TokenRanges

Next ==
  \/ \E text \in Clipboard, r \in PasteRanges : handlePaste(text, r[1], r[2])
  \/ \E i \in OpIds, M \in {MetaPlain, MetaTube, MetaCycle, MetaGrow} : FetchFulfil(i, M)
  \/ FormatStep
  \/ \E i \in OpIds : FetchReject(i)
  \/ \E i \in OpIds : TimerFire(i)
  \/ FileOpen
  \/ \E r \in DeleteRanges : UserDelete(r[1], r[2])

Spec == Init /\ [][Next]_vars

(* ============================================ the template engine, alone == *)
MaxTplLen == 3
TplCells == {"{", "}", "?", ":", "a", "b", "x"}
Templates == UNION {[1..n -> TplCells] : n \in 0..MaxTplLen}
\* metadata whose values may themselves hold {...} text
MetaValues == {<<"x">>, <<"{", "a", "}">>, <<"{", "b", "}">>, <<"{", "a", "}", "x">>}
Metas == {<<>>} \cup {[a |-> v] : v \in MetaValues}
           \cup {[a |-> v, b |-> w] : v \in MetaValues, w \in MetaValues}

InitFT ==
  /\ doc = <<>>
  /\ active = {}
  /\ settings = [autoLink |-> TRUE, pasteIntoSelection |-> FALSE,
                 failureMode |-> "revert", blacklistedDomains |-> <<>>]
  /\ ops = [i \in OpIds |-> IdleOp]
  /\ edits = 0
  /\ last = NoEvent
  /\ \E template \in Templates, metadata \in Metas :
       fmt = formatTemplate(0, template, metadata, UrlPlain)

\* the while loop of formatTemplate, called on its own
Pass ==
  /\ fmt.pc = "loop" /\ fmt.op = 0
  /\ fmt' = LoopStep(fmt)
  /\ UNCHANGED <<doc, active, settings, ops, edits, last>>

NextFT == Pass

\* a loop that can take another turn takes it
SpecFT == InitFT /\ [][NextFT]_vars /\ WF_vars(Pass)

(* ================================================================ claims == *)
\* the pastes of addresses and what follows them, when the user edits
\* nothing and opens no file
NextOps ==
  \/ \E text \in {UrlPlain, UrlTube}, r \in PasteRanges : handlePaste(text, r[1], r[2])
  \/ \E i \in OpIds, M \in {MetaPlain, MetaTube, MetaCycle, MetaGrow} : FetchFulfil(i, M)
  \/ FormatStep
  \/ \E i \in OpIds : FetchReject(i)
  \/ \E i \in OpIds : TimerFire(i)

\* the timer callback runs once the event loop is free, and a handler that
\* is in the loop of formatTemplate goes on running
FairSpec ==
  Init /\ [][NextOps]_vars /\ WF_vars(FormatStep) /\ \A i \in OpIds : WF_vars(TimerFire(i))

Token(i) == SubSeq(ops[i].placeholder, 1, Len(ops[i].placeholder) - 1)
InFlight(i) == ops[i].st = "inflight"
Done(i) == ops[i].st = "done"
\* the step completes operation i
Completes(i) == ops[i].st = "inflight" /\ ops'[i].st = "done"
\* d2 is d with the first occurrence of ph replaced by x
Replaced(d, d2, ph, x) ==
  \E k \in 0..Len(d) :
    /\ k + Len(ph) <= Len(d)
    /\ SubSeq(d, k + 1, k + Len(ph)) = ph
    /\ \A j \in 0..(k - 1) : SubSeq(d, j + 1, j + Len(ph)) # ph
    /\ d2 = SubSeq(d, 1, k) \o x \o SubSeq(d, k + Len(ph) + 1, Len(d))

\* C1: every operation handleFormat started eventually leaves the Inserted
\* state: its placeholder is eventually removed from the active set.
C1_LeavesInserted ==
  \A i \in OpIds : InFlight(i) ~> (Done(i) /\ ops[i].placeholder \notin active)

\* C2: once every started operation has completed, the document holds no
\* Loading... span of any of them.
C2_NoLoadingLeft ==
  (Free /\ \A i \in Started : Done(i)) => \A i \in Started : ~Includes(doc, Token(i))

\* C3: the orphan sweep rewrites every placeholder token that is in the
\* document and not in the active set, and a second sweep changes nothing.
C3_SweepRewritesOrphans ==
  [][FileOpen =>
       /\ \A i \in Started : Includes(doc', Token(i)) => InFlight(i)
       /\ cleanupOrphanedPlaceholders(doc', active') = doc']_vars

\* C5: the completion of one operation leaves every other in-flight
\* placeholder that is in the document where it is, and in the active set.
C5_OthersUntouched ==
  [][\A i, j \in OpIds :
       (i # j /\ Completes(i) /\ InFlight(j) /\ Includes(doc, ops[j].placeholder))
         => /\ Includes(doc', ops[j].placeholder)
            /\ ops[j].placeholder \in active'
            /\ InFlight(j)']_vars

\* C4: the race between the fetch and the timer has one winner, which
\* decides the text written: when the fetch delivered its metadata first the
\* formatted link is written, when the timer fired first the failure text is
\* written, and the event that comes late changes neither the document nor
\* the active set.
C4_OneWinner ==
  [][\A i \in OpIds :
       LET ph == ops[i].placeholder
       IN /\ (Completes(i) /\ ops[i].fetch = "settled")
               => /\ ops'[i].how = "link"
                  /\ Includes(doc, ph)
                       => Replaced(doc, doc', ph,
                                   wrapInMarkdownLink(fmt.result, ops[i].text))
          /\ (Completes(i) /\ ops[i].timer = "armed" /\ ops'[i].timer = "fired")
               => /\ ops'[i].how = "timeout"
                  /\ Includes(doc, ph)
                       => Replaced(doc, doc', ph,
                                   FailureModeFormat(settings.failureMode, ops[i].text))
          /\ (Done(i) /\ ops'[i] # ops[i])
               => doc' = doc /\ active' = active]_vars

\* offset of the first entry e of log, Len(log) when there is none
Pos(log, e) ==
  LET ks == {k \in 1..Len(log) : log[k] = e}
  IN IF ks = {} THEN Len(log) ELSE (CHOOSE k \in ks : \A j \in ks : k <= j) - 1
\* insert strictly precedes fetch start, which strictly precedes replace
Ordered(log) ==
  /\ Pos(log, "add") < Pos(log, "fetch")
  /\ Pos(log, "insert") < Pos(log, "fetch")
  /\ Pos(log, "fetch") < Len(log)
  /\ Pos(log, "replace") > Pos(log, "fetch")

\* C6: an intercepted paste adds the placeholder to the active set and writes
\* it into the document in the step that starts the fetch and before
\* starting it, and the replacement comes after the start of the fetch.
C6_InsertFetchReplace ==
  [][\A i \in OpIds :
       /\ (ops[i].st = "idle" /\ ops'[i].st = "inflight")
            => /\ ops'[i].placeholder \in active'
               /\ doc' = ReplaceRange(doc, ops'[i].placeholder, last'.from, last'.to)
               /\ ops'[i].fetch = "pending"
               /\ Ordered(ops'[i].log)
               /\ Pos(ops'[i].log, "replace") = Len(ops'[i].log)
       /\ Completes(i)
            => /\ Ordered(ops'[i].log)
               /\ Pos(ops'[i].log, "replace") < Len(ops'[i].log)]_vars
\* an operation ran from the insertion to the replacement by a link
C6_Witness ==
  \E i \in OpIds : Done(i) /\ ops[i].how = "link" /\ ops[i].didReplace

\* the failure rendering the failure mode selects for a pasted text
FailureRendering(mode, text) ==
  CASE mode = "revert" -> text
    [] mode = "alert" -> <<"[", "Failed to fetch title", "]", "(">> \o text \o <<")">>

\* C7: when an operation ends by a fetch error, a timeout or a throw of the
\* format step and its placeholder is in the document, the placeholder is
\* replaced by the original text in revert mode and by the link
\* [Failed to fetch title](url) in alert mode.
C7_FailureRendering ==
  [][\A i \in OpIds :
       (/\ Completes(i)
        /\ ops'[i].how \in {"fetchError", "timeout", "formatThrow"}
        /\ Includes(doc, ops[i].placeholder))
         => /\ settings.failureMode \in {"revert", "alert"}
            /\ Replaced(doc, doc', ops[i].placeholder,
                        FailureRendering(settings.failureMode, ops[i].text))]_vars
\* in alert mode a format step threw and the failure link was written
C7_Witness ==
  \E i \in OpIds :
    /\ Done(i) /\ ops[i].how = "formatThrow" /\ ops[i].didReplace
    /\ settings.failureMode = "alert"
    /\ Includes(doc, FailureRendering("alert", ops[i].text))

\* C8: when an operation completes and the exact text of its placeholder is
\* not in the document, the replacement changes nothing, the placeholder is
\* removed from the active set, and an orphan sweep runs.
C8_TokenGone ==
  [][\A i \in OpIds :
       (Completes(i) /\ ~Includes(doc, ops[i].placeholder))
         => /\ active' = active \ {ops[i].placeholder}
            /\ ~ops'[i].didReplace
            /\ ops'[i].log[Len(ops'[i].log)] = "sweep"
            /\ doc' = cleanupOrphanedPlaceholders(doc, active')]_vars
\* an operation completed after the user took its placeholder out
C8_Witness ==
  \E i \in OpIds :
    /\ Done(i) /\ ~ops[i].didReplace
    /\ ops[i].placeholder \notin active
    /\ edits > 0

\* the trimmed non-empty entries of the blacklist the user typed
BlacklistEntries == {<<".co">>}
\* the text cannot be parsed as a URL, or its hostname contains an entry
ShortCircuits(text) ==
  \/ ~UrlParses(text)
  \/ \E e \in BlacklistEntries : Includes(hostname(text), e)

\* C9: a paste of a text that cannot be parsed as a URL, or whose hostname
\* contains a blacklist entry, starts no fetch, leaves exactly the raw text at
\* the paste location and leaves no placeholder in the document or the
\* active set.
C9_BlacklistShortCircuit ==
  [][(last'.kind = "paste" /\ ShortCircuits(last'.text))
       => /\ ~last'.preventDefault
          /\ ops' = ops
          /\ active' = active
          /\ doc' = ReplaceRange(doc, last'.text, last'.from, last'.to)]_vars
\* a blacklisted or an unparsable address was pasted and is in the document
\* as it was typed
C9_Witness ==
  /\ last.kind = "paste" /\ last.text \in {UrlBlack, UrlBroken}
  /\ ~last.preventDefault
  /\ Includes(doc, last.text)
  /\ \A i \in OpIds : ops[i].text # last.text

\* C10: formatTemplate terminates: its loop reaches a pass that changes
\* nothing and the call returns. The claim also rules out a throw; a call
\* that ends by throwing is counted here as ended, so that what is refuted
\* is termination itself.
C10_Terminates == <>(fmt.pc \in {"done", "thrown"})

(* ===================================== single expressions of a template == *)
\* formatTemplate called on one expression: a conditional {f?P:A} or a
\* variable {v} / {v|format}
MaxBranchLen == 2
FieldNames == {<<"a">>, <<"b">>, <<"url">>, <<Space, "a", Space>>}
\* literal branch texts: no brace, every colon escaped, and no backslash at
\* the end, where it would escape the colon that separates the branches
BranchCells == {"x", "\\", ":"}
Branches ==
  {b \in UNION {[1..n -> BranchCells] : n \in 0..MaxBranchLen} :
     /\ \A k \in 1..Len(b) : b[k] = ":" => (k > 1 /\ b[k - 1] = "\\")
     /\ b # <<>> => b[Len(b)] # "\\"}
Conditional(f, P, A) == <<"{">> \o f \o <<"?">> \o P \o <<":">> \o A \o <<"}">>
Formats == {<<>>, <<"|", "YYYY">>, <<Space, "|", Space, "YYYY">>}
Variable(v, format) == <<"{">> \o v \o format \o <<"}">>
\* an address that holds an expression of its own
UrlBraces == <<"https://", "a.io", "/", "{", "a", "}">>
\* a defined and non-empty, a defined and empty, b never defined, and a
\* mapping with a url key of its own
ExprMetas ==
  {<<>>, [a |-> <<"T">>], [a |-> <<>>], [a |-> <<"T">>, url |-> <<"other">>]}

InitExpr ==
  /\ doc = <<>>
  /\ active = {}
  /\ settings = [autoLink |-> TRUE, pasteIntoSelection |-> FALSE,
                 failureMode |-> "revert", blacklistedDomains |-> <<>>]
  /\ ops = [i \in OpIds |-> IdleOp]
  /\ edits = 0
  /\ \E metadata \in ExprMetas, url \in {UrlPlain, UrlBraces} :
       \/ \E f \in FieldNames, P \in Branches, A \in Branches :
            /\ last = [kind |-> "conditional", f |-> f, P |-> P, A |-> A]
            /\ fmt = formatTemplate(0, Conditional(f, P, A), metadata, url)
       \/ \E v \in FieldNames, format \in Formats :
            /\ last = [kind |-> "variable", v |-> v, format |-> format]
            /\ fmt = formatTemplate(0, Variable(v, format), metadata, url)

SpecExpr == InitExpr /\ [][NextFT]_vars

\* the field of a conditional resolves to a defined, non-empty value
Present(f, M, url) ==
  LET name == Trim(f)
  IN \/ name = <<"url">>
     \/ /\ Len(name) = 1 /\ name[1] \in DOMAIN M
        /\ M[name[1]] # <<>>

\* C11: for a conditional {f?P:A} with literal branches that hold no brace
\* and no unescaped colon, formatTemplate yields P when the field is present
\* and A otherwise, each backslash-colon of the chosen branch turned into a
\* colon.
C11_ConditionalBranches ==
  (fmt.pc = "done" /\ last.kind = "conditional")
    => fmt.result = IF Present(last.f, fmt.metadata, fmt.url)
                    THEN Unescape(last.P) ELSE Unescape(last.A)

\* C12: the expression {url}, with or without a format part, resolves to the
\* url argument whatever the metadata holds.
C12_UrlIsArgument ==
  (fmt.pc = "done" /\ last.kind = "variable" /\ Trim(last.v) = <<"url">>)
    => fmt.result = fmt.url

(* ================================================ the link wrapper, alone == *)
\* wrapInMarkdownLink called on a text put together from a few pieces
MaxWrapPieces == 4
WrapPieces == {<<"[">>, <<"]">>, <<"\\">>, <<"x">>, <<Space>>, <<"!">>, <<"[", "x", "]">>}
RECURSIVE WrapTexts(_)
WrapTexts(n) ==
  IF n = 0 THEN {<<>>}
  ELSE WrapTexts(n - 1) \cup {t \o p : t \in WrapTexts(n - 1), p \in WrapPieces}

InitWrap ==
  /\ doc = <<>>
  /\ active = {}
  /\ settings = [autoLink |-> TRUE, pasteIntoSelection |-> FALSE,
                 failureMode |-> "revert", blacklistedDomains |-> <<>>]
  /\ ops = [i \in OpIds |-> IdleOp]
  /\ fmt = IdleFmt
  /\ edits = 0
  /\ \E text \in WrapTexts(MaxWrapPieces), url \in {UrlPlain, UrlTube} :
       last = [kind |-> "wrap", text |-> text, url |-> url]

\* the call returns: doc holds the returned text
Wrap ==
  /\ last.kind = "wrap"
  /\ doc' = wrapInMarkdownLink(last.text, last.url)
  /\ last' = [last EXCEPT !.kind = "wrapped"]
  /\ UNCHANGED <<active, settings, ops, fmt, edits>>

\* a second call, on the same text behind an embed marker: last.embed holds
\* what it returns
WrapEmbed ==
  /\ last.kind = "wrapped"
  /\ last' = [kind |-> "embedded", text |-> last.text, url |-> last.url,
              embed |-> wrapInMarkdownLink(<<"!">> \o last.text, last.url)]
  /\ UNCHANGED <<doc, active, settings, ops, fmt, edits>>

NextWrap == Wrap \/ WrapEmbed

SpecWrap == InitWrap /\ [][NextWrap]_vars

\* offset of the first unescaped "]" after offset p, -1 if none
FirstClose(s, p) ==
  LET qs == {q \in (p + 1)..(Len(s) - 1) : Unescaped(s, q, "]")}
  IN IF qs = {} THEN -1 ELSE CHOOSE q \in qs : \A k \in qs : q <= k
\* offsets of the unescaped "[" that open a span, and of those that open a
\* span with a label that is not empty
Spans(s) ==
  {p \in 0..(Len(s) - 1) : Unescaped(s, p, "[") /\ FirstClose(s, p) # -1}
LabelSpans(s) == {p \in Spans(s) : FirstClose(s, p) > p + 1}
\* the text does not start with the embed marker
NoMarker(text) == text = <<>> \/ text[1] # "!"

\* C13: for a text with an unescaped non-empty [label] span, the result is
\* [label](url) for the first such span, followed by all that comes after
\* its closing bracket.
C13_BracketSpan ==
  (last.kind = "wrapped" /\ NoMarker(last.text) /\ LabelSpans(last.text) # {})
    => LET s == last.text
           p == CHOOSE x \in LabelSpans(s) : \A y \in LabelSpans(s) : x <= y
           q == FirstClose(s, p)
       IN doc = <<"[">> \o Slice(s, p + 1, q) \o <<"]", "(">> \o last.url \o <<")">>
                  \o Slice(s, q + 1, Len(s))

\* C14: for a text with no unescaped [...] span (and something other than
\* spaces in it), the result is the trimmed text as the label of a link:
\* [wholeText](url).
C14_NoBracketSpan ==
  (/\ last.kind = "wrapped" /\ NoMarker(last.text)
   /\ Spans(last.text) = {} /\ Trim(last.text) # <<>>)
    => doc = <<"[">> \o Trim(last.text) \o <<"]", "(">> \o last.url \o <<")">>

(* ==================================================== the dispatch, alone == *)
\* CLIENTS.find called on a text made of a scheme, a host and a path
Hosts == {"www.youtube.com", "youtu.be", "music.youtube.com", "twitter.com", "x.com",
          "www.reddit.com", "reddit.com", "github.com", "a.io"}
Paths == {<<>>, <<"/">>,
          <<"/", "v", "/", "status", "/", "1">>,
          <<"/", "v", "/", "status", "/", "1", ".png">>,
          <<"/", "r", "/", "v", "/", "comments/">>,
          <<"/", "r", "/", "v", "/", "comments/", "u">>,
          <<"/", "v", "/", "u">>, <<"/", "v", "/", "u", "/">>,
          <<"/", "v", "/", "u", "/", "r">>,
          <<"/", "v", ".png">>, <<"/", "v", ".jpg">>, <<"/", "v", ".png", "/">>}
DispatchTexts == {<<s, h>> \o p : s \in Schemes, h \in Hosts, p \in Paths}

InitDispatch ==
  /\ doc = <<>>
  /\ active = {}
  /\ settings = [autoLink |-> TRUE, pasteIntoSelection |-> FALSE,
                 failureMode |-> "revert", blacklistedDomains |-> <<>>]
  /\ ops = [i \in OpIds |-> IdleOp]
  /\ fmt = IdleFmt
  /\ edits = 0
  /\ \E text \in DispatchTexts : last = [kind |-> "dispatch", text |-> text]

\* const client = CLIENTS.find(...); if (client) ... else throw
Dispatch ==
  /\ last.kind = "dispatch"
  /\ LET k == Find(last.text)
     IN last' = IF k # 0
                THEN [kind |-> "dispatched", text |-> last.text, client |-> k]
                ELSE [kind |-> "no client", text |-> last.text, client |-> 0]
  /\ UNCHANGED <<doc, active, settings, ops, fmt, edits>>

NextDispatch == Dispatch

SpecDispatch == InitDispatch /\ [][NextDispatch]_vars

\* C15: the dispatch always ends with one client selected, never in the
\* "No client found" branch; the client selected matches the text, no client
\* before it in CLIENTS does, and it is DefaultClient, the last of CLIENTS,
\* exactly when none of the clients before it matches.
C15_FirstMatchDispatch ==
  /\ last.kind # "no client"
  /\ last.kind = "dispatched" =>
       /\ last.client \in 1..Len(CLIENTS)
       /\ matches(CLIENTS[last.client], last.text)
       /\ \A j \in 1..(last.client - 1) : ~matches(CLIENTS[j], last.text)
       /\ CLIENTS[Len(CLIENTS)] = "default"
       /\ (CLIENTS[last.client] = "default")
            <=> (\A j \in 1..(Len(CLIENTS) - 1) : ~matches(CLIENTS[j], last.text))

\* a text that two specific clients match is dispatched to the earlier one
C15_Witness ==
  /\ last.kind = "dispatched"
  /\ CLIENTS[last.client] = "youtube"
  /\ matches("image", last.text)

(* ============================================ the paste classifier, alone == *)
\* one paste into a document put together from a few pieces, with any
\* cursor, with or without one cell selected, under any switches
MaxDocPieces == 3
DocPieces == {<<"[", "x", "]", "(">>, <<")">>, <<Backtick>>, Fence, Dashes,
              <<"<", "!", "-", "-">>, <<"-", "-", ">">>, <<Newline>>, <<"t">>,
              <<Space>> \o Fence \o <<Newline>>, Dashes \o <<Space, Newline>>}
RECURSIVE PasteDocs(_)
PasteDocs(n) ==
  IF n = 0 THEN {<<>>}
  ELSE PasteDocs(n - 1) \cup {d \o p : d \in PasteDocs(n - 1), p \in DocPieces}
PasteTexts == {UrlPlain, UrlBlack, <<"ftp://", "a.io">>, <<"hello">>}

InitPaste ==
  /\ doc \in PasteDocs(MaxDocPieces)
  /\ active = {}
  /\ \E a \in BOOLEAN, p \in BOOLEAN :
       settings = [autoLink |-> a, pasteIntoSelection |-> p,
                   failureMode |-> "revert", blacklistedDomains |-> Blacklist]
  /\ ops = [i \in OpIds |-> IdleOp]
  /\ fmt = IdleFmt
  /\ edits = 0
  /\ last = NoEvent

\* the one paste: the cursor is at to, the selection, if any, is the cell
\* before it
PasteOnce ==
  /\ last = NoEvent
  /\ \E text \in PasteTexts, to \in 0..Len(doc), n \in {0, 1} :
       /\ to - n >= 0
       /\ \/ handlePaste(text, to - n, to)
          \/ handlePasteReturns("no activeFile", text, to - n, to)
          \/ handlePasteReturns("no clipboardData", <<>>, to - n, to)

NextPaste == PasteOnce

SpecPaste == InitPaste /\ [][NextPaste]_vars

\* the text before offset cur on its line ends with [...]( and the
\* character right after cur is ")"
LinkTargetAt(s, cur) ==
  LET before == Slice(s, LineStart(s, cur), cur)
      n == Len(before)
  IN /\ n >= 3 /\ before[n] = "(" /\ before[n - 1] = "]"
     /\ \E k \in 1..(n - 2) : before[k] = "["
     /\ cur < Len(s) /\ s[cur + 1] = ")"
\* the step is a paste
IsPaste == last = NoEvent /\ last'.kind = "paste"
\* the event of the paste carries clipboard data and a file is active
HasDataAndFile == "returned" \notin DOMAIN last'
StartsHttp(text) == text # <<>> /\ text[1] \in {"http://", "https://"}

\* C16: with no selection, the paste of a URL with the cursor between the
\* "(" of a markdown link opening [...]( and a ")" is not intercepted: the
\* default is not prevented and no placeholder is made.
C16_LinkTargetNotIntercepted ==
  [][(/\ IsPaste /\ last'.from = last'.to /\ StartsHttp(last'.text)
      /\ LinkTargetAt(doc, last'.to))
       => (~last'.preventDefault /\ active' = active /\ ops' = ops)]_vars

\* a URL that is not blacklisted was pasted, with auto-link on, between the
\* parentheses of [x]() and went in as it was
C16_Witness ==
  /\ last.kind = "paste" /\ last.from = last.to /\ last.text = UrlPlain
  /\ settings.autoLink /\ ~last.preventDefault
  /\ doc = <<"[", "x", "]", "(">> \o UrlPlain \o <<")">>

\* a URL the blacklist does not hold
NotBlacklisted(text) == ~ShortCircuits(text)

\* C17 as stated: with a selection, auto-link on and a URL that is not
\* blacklisted (on the clipboard, a file being active), the paste is
\* intercepted whatever is around the cursor.
C17_SelectionAlwaysIntercepts ==
  [][(/\ IsPaste /\ last'.from # last'.to /\ StartsHttp(last'.text)
      /\ NotBlacklisted(last'.text) /\ settings.autoLink /\ HasDataAndFile)
       => last'.preventDefault]_vars

\* C17: with a selection, auto-link on, the paste-into-selection switch off,
\* a file active and a URL that is not blacklisted on the clipboard, the
\* paste is intercepted whatever is around the cursor: the default is prevented and the placeholder takes the
\* place of the selection.
C17_SelectionInterceptsUnlessOverride ==
  [][(/\ IsPaste /\ last'.from # last'.to /\ StartsHttp(last'.text)
      /\ NotBlacklisted(last'.text) /\ settings.autoLink
      /\ ~settings.pasteIntoSelection /\ HasDataAndFile)
       => (/\ last'.preventDefault
           /\ \E ph \in active' \ active :
                doc' = ReplaceRange(doc, ph, last'.from, last'.to))]_vars

\* the cell selected inside a fenced code block was replaced by a
\* placeholder
C17_Witness ==
  /\ last.kind = "paste" /\ last.from # last.to /\ last.preventDefault
  /\ ~settings.pasteIntoSelection
  /\ \E ph \in active : doc = Fence \o <<Newline>> \o ph

\* C18: a clipboard text that does not start with http:// or https:// is
\* never intercepted, whatever is around the cursor, with or without a
\* selection and under any switches: the default is not prevented, no
\* placeholder is made and the text goes in as it is.
C18_NonUrlNeverIntercepted ==
  [][(IsPaste /\ ~StartsHttp(last'.text))
       => (/\ ~last'.preventDefault /\ active' = active /\ ops' = ops
           /\ doc' = ReplaceRange(doc, last'.text, last'.from, last'.to))]_vars

\* a text with another scheme, which parses as a URL and is not blacklisted,
\* was pasted over a selection with auto-link on and went in as it was
C18_Witness ==
  /\ last.kind = "paste" /\ last.from # last.to
  /\ last.text = <<"ftp://", "a.io">> /\ settings.autoLink
  /\ ~settings.pasteIntoSelection /\ ~last.preventDefault
  /\ doc = <<"t">> \o last.text

(* ============================================ the YouTube timestamp, alone == *)
\* url.searchParams.get(name) gives null for a parameter the URL lacks
Null == <<"null">>
DecDigits == <<"0", "1", "2", "3", "4", "5", "6", "7", "8", "9">>
DigitValue(c) == (CHOOSE k \in 1..Len(DecDigits) : DecDigits[k] = c) - 1
IsDigit(c) == \E k \in 1..Len(DecDigits) : DecDigits[k] = c
\* what Number gives for a text that is not a numeral
NaN == -1

\* Number(s) for a text of digits and letters: 0 for the empty text, the
\* decimal value of a run of digits, NaN for anything else
RECURSIVE Number(_)
Number(s) ==
  IF s = <<>> THEN 0
  ELSE IF \E k \in 1..Len(s) : ~IsDigit(s[k]) THEN NaN
  ELSE 10 * Number(SubSeq(s, 1, Len(s) - 1)) + DigitValue(s[Len(s)])

\* n.toString() for an integer n >= 0
RECURSIVE toString(_)
toString(n) ==
  IF n < 10 THEN <<DecDigits[n + 1]>>
  ELSE toString(n \div 10) \o <<DecDigits[(n % 10) + 1]>>

\* a padStart that pads nothing
padStartNone(s, targetLength, padString) == s

\* s.padStart(targetLength, padString) for a one-character padString
RECURSIVE padStart(_, _, _)
padStart(s, targetLength, padString) ==
  IF Len(s) >= targetLength THEN s
  ELSE padStart(<<padString>> \o s, targetLength, padString)

\* timestamp.replace("s", ""): the first "s" goes
ReplaceFirstS(s) ==
  LET i == IndexOf(s, <<"s">>)
  IN IF i = -1 THEN s ELSE Slice(s, 0, i) \o Slice(s, i + 1, Len(s))

\* getYouTubeTimestamp(url), t and time_continue being what searchParams
\* holds for them
getYouTubeTimestamp(t, time_continue) ==
  LET timestamp == IF t # Null /\ t # <<>> THEN t
                   ELSE IF time_continue # Null /\ time_continue # <<>> THEN time_continue
                   ELSE <<>>
  IN Number(ReplaceFirstS(timestamp))

\* timestampStr of YouTubeClient.format
timestampStr(seconds) ==
  IF seconds = NaN \/ seconds = 0 THEN <<>>
  ELSE LET hours == seconds \div 3600
           mins == (seconds % 3600) \div 60
           secs == seconds % 60
       IN IF hours > 0
          THEN <<"@">> \o toString(hours) \o <<":">> \o padStart(toString(mins), 2, "0")
                 \o <<":">> \o padStart(toString(secs), 2, "0")
          ELSE <<"@">> \o toString(mins) \o <<":">> \o padStart(toString(secs), 2, "0")

\* the parameter values: texts of a few digits and letters
MaxParamLen == 4
ParamCells == {"0", "1", "3", "6", "9", "s", "m"}
ParamValues == UNION {[1..n -> ParamCells] : n \in 0..MaxParamLen}
TimeContinueValues == {Null, <<"9", "0">>, <<"6", "1", "s">>}

InitStamp ==
  /\ doc = <<>>
  /\ active = {}
  /\ settings = [autoLink |-> TRUE, pasteIntoSelection |-> FALSE,
                 failureMode |-> "revert", blacklistedDomains |-> <<>>]
  /\ ops = [i \in OpIds |-> IdleOp]
  /\ fmt = IdleFmt
  /\ edits = 0
  /\ \E t \in ParamValues \cup {Null}, tc \in TimeContinueValues :
       last = [kind |-> "stamp", t |-> t, time_continue |-> tc]

\* YouTubeClient.format up to extendedMetadata: doc holds timestampStr
Stamp ==
  /\ last.kind = "stamp"
  /\ doc' = timestampStr(getYouTubeTimestamp(last.t, last.time_continue))
  /\ last' = [last EXCEPT !.kind = "stamped"]
  /\ UNCHANGED <<active, settings, ops, fmt, edits>>

NextStamp == Stamp

SpecStamp == InitStamp /\ [][NextStamp]_vars

\* the parameter read: t, or time_continue when t is absent or empty
ParamRead(t, tc) == IF t # Null /\ t # <<>> THEN t ELSE tc
\* the parameter read is absent or empty
ParamAbsent(t, tc) == ParamRead(t, tc) \in {Null, <<>>}
\* the text with one trailing "s", if any, stripped
StripS(v) == IF v # <<>> /\ v[Len(v)] = "s" THEN SubSeq(v, 1, Len(v) - 1) ELSE v
\* the text is a decimal numeral
IsNumeral(v) == v # <<>> /\ \A k \in 1..Len(v) : IsDigit(v[k])
\* the value of a numeral, digit by digit
NumeralValue(v) ==
  LET pow[k \in 0..Len(v)] == IF k = 0 THEN 1 ELSE 10 * pow[k - 1]
      sum[k \in 0..Len(v)] ==
        IF k = 0 THEN 0 ELSE sum[k - 1] + DigitValue(v[k]) * pow[Len(v) - k]
  IN sum[Len(v)]
\* the text is two digits that read as a number in 0..59
TwoDigits(v) == Len(v) = 2 /\ IsNumeral(v) /\ NumeralValue(v) \in 0..59
\* the text is the numeral of n, without leading zeros
PlainNumeral(v, n) == IsNumeral(v) /\ NumeralValue(v) = n /\ (Len(v) > 1 => v[1] # "0")

MaxReplacePieces == 3
ReplacePieces(ph) == {ph, SubSeq(ph, 1, Len(ph) - 1), <<"t">>, <<Newline>>}
RECURSIVE ReplaceDocs(_, _)
ReplaceDocs(ph, n) ==
  IF n = 0 THEN {<<>>}
  ELSE ReplaceDocs(ph, n - 1)
         \cup {d \o p : d \in ReplaceDocs(ph, n - 1), p \in ReplacePieces(ph)}

InitReplace ==
  \E text \in {UrlPlain, UrlTube} :
    LET ph == generatePlaceholder(generateUniqueToken(Ids[1], text))
        client == CLIENTS[Find(text)]
    IN /\ doc \in ReplaceDocs(ph, MaxReplacePieces)
       /\ active = {ph}
       /\ settings = [autoLink |-> TRUE, pasteIntoSelection |-> FALSE,
                      failureMode |-> "revert", blacklistedDomains |-> <<>>]
       /\ ops = [i \in OpIds |->
                   IF i = 1
                   THEN [st |-> "inflight", text |-> text, placeholder |-> ph,
                         client |-> client, fetch |-> "settled", timer |-> "armed",
                         how |-> "", didReplace |-> FALSE,
                         log |-> <<"add", "insert", "timer", "find", "fetch", "format">>]
                   ELSE IdleOp]
       /\ \E M \in Metadata(client) : fmt = formatTemplate(1, defaultFormat(client), M, text)
       /\ edits = 0
       /\ last = NoEvent

NextReplace == FormatStep

SpecReplace == InitReplace /\ [][NextReplace]_vars

\* C20: when an operation ends with its formatted link and its placeholder
\* is in the document, the first occurrence of the placeholder is replaced
\* by the formatted link, every other character of the document stays, and
\* in the same step the placeholder leaves the active set.
C20_FirstOccurrenceReplaced ==
  [][\A i \in OpIds :
       (Completes(i) /\ ops'[i].how = "link" /\ Includes(doc, ops[i].placeholder))
         => /\ Replaced(doc, doc', ops[i].placeholder,
                        wrapInMarkdownLink(fmt.result, fmt.url))
            /\ Len(doc') = Len(doc) - Len(ops[i].placeholder)
                             + Len(wrapInMarkdownLink(fmt.result, fmt.url))
            /\ active' = active \ {ops[i].placeholder}
            /\ ops'[i].didReplace]_vars

\* the link took the place of the first of two copies of the placeholder;
\* the second copy is still there
C20_Witness ==
  /\ Done(1) /\ ops[1].how = "link" /\ ops[1].didReplace
  /\ ops[1].placeholder \notin active
  /\ doc = <<"[", "T", "]", "(">> \o UrlPlain \o <<")">> \o ops[1].placeholder

(* ===================================================== further claims == *)
\* C21: no step other than an edit of the user takes an in-flight
\* placeholder out of the document: a placeholder that is in the active set
\* and in the document, of an operation that stays in flight, is still in
\* the document after a sweep, whether the sweep came from a file-open or
\* from another operation that did not find its placeholder.
C21_SweepSparesInFlight ==
  [][\A j \in OpIds :
       (/\ InFlight(j) /\ InFlight(j)' /\ edits' = edits
        /\ ops[j].placeholder \in active /\ Includes(doc, ops[j].placeholder))
         => Includes(doc', ops[j].placeholder)]_vars

\* the placeholders of the operations in flight
InFlightPlaceholders == {ops[i].placeholder : i \in {j \in OpIds : InFlight(j)}}

\* C22: the active set holds exactly the placeholders of the operations
\* started and not completed; it changes only by gaining the placeholder of
\* the operation a paste starts, which that step inserts, or by losing the
\* placeholder of the operation a step completes with its replacement; a
\* paste that is not intercepted leaves it as it is.
C22_ActiveIsInFlight ==
  /\ [](active = InFlightPlaceholders)
  /\ [][active' # active =>
          \/ \E i \in OpIds :
               /\ ops[i].st = "idle" /\ InFlight(i)'
               /\ last'.kind = "paste" /\ last'.preventDefault
               /\ active' = active \cup {ops'[i].placeholder}
               /\ Includes(doc', ops'[i].placeholder)
          \/ \E i \in OpIds :
               /\ Completes(i)
               /\ active' = active \ {ops[i].placeholder}
               /\ Pos(ops'[i].log, "replace") < Len(ops'[i].log)]_vars

\* one operation is over, a blacklisted text was pasted and went in as it
\* was, and the active set holds the placeholder of the one operation in
\* flight
C22_Witness ==
  /\ \E i, j \in OpIds : InFlight(i) /\ Done(j) /\ active = {ops[i].placeholder}
  /\ last.kind = "paste" /\ ~last.preventDefault /\ last.text = UrlBlack

(* ================================================ one plain variable, alone == *)
\* formatTemplate called on {v} with metadata whose values hold any of the
\* characters of the template language
VarNames == {"a", "b", "c"}
VarValues == MetaValues \cup {<<>>, <<"?">>, <<":">>, <<"{">>, <<"}">>,
                              <<"{", "a", "?", "x", ":", "}">>}
VarMetas == {<<>>} \cup {[a |-> v] : v \in VarValues}
              \cup {[a |-> v, b |-> w] : v \in VarValues, w \in VarValues}

InitVar ==
  /\ doc = <<>>
  /\ active = {}
  /\ settings = [autoLink |-> TRUE, pasteIntoSelection |-> FALSE,
                 failureMode |-> "revert", blacklistedDomains |-> <<>>]
  /\ ops = [i \in OpIds |-> IdleOp]
  /\ edits = 0
  /\ \E v \in VarNames, metadata \in VarMetas :
       /\ last = [kind |-> "plain", v |-> v]
       /\ fmt = formatTemplate(0, <<"{", v, "}">>, metadata, UrlPlain)

SpecVar == InitVar /\ [][NextFT]_vars

\* C23: for the template {v}, v not url, formatTemplate returns M[v] as it
\* is when M[v] is defined, whatever characters it holds, and the empty
\* text when it is not.
C23_VariableVerbatim ==
  (fmt.pc = "done" /\ last.kind = "plain")
    => fmt.result = IF last.v \in DOMAIN fmt.metadata
                    THEN fmt.metadata[last.v] ELSE <<>>

(* ===================================================== further claims, 2 == *)
\* C24: whatever the formatted text and the URL, the text wrapInMarkdownLink
\* returns holds the link target ](url).
C24_AlwaysLinksToUrl ==
  last.kind = "wrapped" => Includes(doc, <<"]", "(">> \o last.url \o <<")">>)

(* ============================================== the classifier's contexts == *)
\* the contexts of the spec, read off the document s and the cursor offset
\* cur: inline code, fenced code block, YAML frontmatter, HTML comment
InlineCodeAt(s, cur) ==
  \/ Cardinality({k \in (LineStart(s, cur) + 1)..cur : s[k] = Backtick}) % 2 = 1
  \/ cur > LineStart(s, cur) /\ s[cur] = Backtick
  \/ cur < LineEnd(s, cur) /\ s[cur + 1] = Backtick
\* the lines strictly above the cursor line that start, once trimmed, with
\* three backticks
FenceLinesAbove(s, cur) ==
  {i \in 1..CursorLine(s, cur) :
     LET l == Trim(Lines(s)[i])
     IN Len(l) >= 3 /\ \A k \in 1..3 : l[k] = Backtick}
FenceOddAt(s, cur) == Cardinality(FenceLinesAbove(s, cur)) % 2 = 1
FrontmatterOpenAt(s, cur) ==
  /\ Trim(Lines(s)[1]) = <<"-", "-", "-">>
  /\ \A i \in 1..CursorLine(s, cur) : Trim(Lines(s)[i + 1]) # <<"-", "-", "-">>
\* occurrences of the literal pat in s
Occurrences(s, pat) ==
  Cardinality({i \in 0..(Len(s) - Len(pat)) : Slice(s, i, i + Len(pat)) = pat})
CommentOpenAt(s, cur) ==
  Occurrences(Slice(s, 0, cur), <<"<", "!", "-", "-">>)
    > Occurrences(Slice(s, 0, cur), <<"-", "-", ">">>)
\* the step is the paste, with nothing selected, of a URL
IsUrlPaste == IsPaste /\ last'.from = last'.to /\ StartsHttp(last'.text)
\* ... which auto-link is on for and the blacklist does not hold, in a file
\* that is active
IsEligiblePaste ==
  IsUrlPaste /\ settings.autoLink /\ NotBlacklisted(last'.text) /\ HasDataAndFile

\* C25: with no selection, the paste of a URL is not intercepted when an
\* odd number of backticks stand before the cursor on its line, or the
\* character right before or right after the cursor is a backtick.
C25_InlineCodeNotIntercepted ==
  [][(IsUrlPaste /\ InlineCodeAt(doc, last'.to))
       => (~last'.preventDefault /\ active' = active)]_vars

\* a URL pasted right after the closing backtick of `t` went in as it was
C25_Witness ==
  /\ last.kind = "paste" /\ last.from = last.to /\ last.text = UrlPlain
  /\ settings.autoLink /\ ~last.preventDefault
  /\ doc = <<Backtick, "t", Backtick>> \o UrlPlain

\* C26 as stated: with no selection, the paste of a URL is not intercepted
\* exactly when the number of fence lines strictly above the cursor line is
\* odd.
C26_FenceParityDecides ==
  [][IsEligiblePaste => (~last'.preventDefault <=> FenceOddAt(doc, last'.to))]_vars

\* C26: with no selection, the paste of a URL is not intercepted when the
\* number of fence lines strictly above the cursor line is odd; when it is
\* even and the cursor is in no link target, inline code, frontmatter or
\* comment, the paste (auto-link on, URL not blacklisted) is intercepted. A
\* fence on the cursor line itself does not count.
C26_FenceParity ==
  [][/\ (IsUrlPaste /\ FenceOddAt(doc, last'.to)) => ~last'.preventDefault
     /\ (/\ IsEligiblePaste /\ ~FenceOddAt(doc, last'.to)
         /\ ~LinkTargetAt(doc, last'.to) /\ ~InlineCodeAt(doc, last'.to)
         /\ ~FrontmatterOpenAt(doc, last'.to) /\ ~CommentOpenAt(doc, last'.to))
          => last'.preventDefault]_vars

\* a URL pasted below two fence lines was intercepted
C26_Witness ==
  /\ last.kind = "paste" /\ last.from = last.to /\ last.preventDefault
  /\ \E ph \in active :
       doc = <<Space>> \o Fence \o <<Newline, Space>> \o Fence \o <<Newline>> \o ph

\* C27: with no selection, the paste of a URL is not intercepted when line 0
\* trimmed is --- and no line from 1 to the cursor line trimmed is ---, the
\* cursor on line 0 included; when a closing --- stands on or before the
\* cursor line and the cursor is in no link target, inline code, code block
\* or comment, the paste (auto-link on, URL not blacklisted) is intercepted.
C27_Frontmatter ==
  [][/\ (IsUrlPaste /\ FrontmatterOpenAt(doc, last'.to)) => ~last'.preventDefault
     /\ (/\ IsEligiblePaste
         /\ Trim(Lines(doc)[1]) = <<"-", "-", "-">> /\ ~FrontmatterOpenAt(doc, last'.to)
         /\ ~LinkTargetAt(doc, last'.to) /\ ~InlineCodeAt(doc, last'.to)
         /\ ~FenceOddAt(doc, last'.to) /\ ~CommentOpenAt(doc, last'.to))
          => last'.preventDefault]_vars

\* a URL pasted on the line below an opening --- went in as it was
C27_Witness ==
  /\ last.kind = "paste" /\ last.from = last.to /\ last.text = UrlPlain
  /\ settings.autoLink /\ ~last.preventDefault
  /\ doc = <<"-", "-", "-", Space, Newline, "t">> \o UrlPlain

\* C28: with no selection, the paste of a URL is not intercepted when the
\* text before the cursor holds more <!-- than -->; what stands after the
\* cursor does not count: when the text before the cursor holds no more <!--
\* than --> and the cursor is in no link target, inline code, code block or
\* frontmatter, the paste (auto-link on, URL not blacklisted) is intercepted
\* whatever follows the cursor.
C28_HtmlComment ==
  [][/\ (IsUrlPaste /\ CommentOpenAt(doc, last'.to)) => ~last'.preventDefault
     /\ (/\ IsEligiblePaste /\ ~CommentOpenAt(doc, last'.to)
         /\ ~LinkTargetAt(doc, last'.to) /\ ~InlineCodeAt(doc, last'.to)
         /\ ~FenceOddAt(doc, last'.to) /\ ~FrontmatterOpenAt(doc, last'.to))
          => last'.preventDefault]_vars

\* a URL pasted before a comment opener was intercepted
C28_Witness ==
  /\ last.kind = "paste" /\ last.from = last.to /\ last.preventDefault
  /\ \E ph \in active : doc = <<"t">> \o ph \o <<"<", "!", "-", "-">>

(* ===================================================== further claims, 3 == *)
\* C29: the call on a text behind an embed marker returns the marker
\* followed by what the call on the text returns; of a text that itself
\* starts with a marker only the marker put before it is stripped: when it
\* has no bracket span, its own marker is still in what follows the marker
\* of the result.
C29_EmbedMarker ==
  last.kind = "embedded" =>
    /\ NoMarker(last.text) => last.embed = <<"!">> \o doc
    /\ (~NoMarker(last.text) /\ Spans(last.text) = {})
         => /\ last.embed # <<>> /\ last.embed[1] = "!"
            /\ Includes(Tail(last.embed), Trim(last.text))

\* ![x] x gave the embed of the link followed by the rest
C29_Witness ==
  /\ last.kind = "embedded"
  /\ last.text = <<"[", "x", "]", Space, "x">>
  /\ last.embed = <<"!", "[", "x", "]", "(">> \o last.url \o <<")", Space, "x">>

\* C30: a paste handlePaste declines (auto-link off, no clipboard data, no
\* active file, the selection override, the classifier passing it through,
\* a blacklisted or unparsable text) is not suppressed, and handlePaste
\* itself changes nothing: the active set and the operations stay, no fetch
\* starts, no format runs, and the document changes by the editor's own
\* paste of the text and by nothing else.
C30_DeclinedPasteFrame ==
  [][IsPaste =>
       LET text == last'.text
           selected == last'.from # last'.to
           declines ==
             \/ ~settings.autoLink
             \/ ~HasDataAndFile
             \/ settings.pasteIntoSelection /\ selected
             \/ ~StartsHttp(text)
             \/ ~selected /\ \/ LinkTargetAt(doc, last'.to) \/ InlineCodeAt(doc, last'.to)
                              \/ FenceOddAt(doc, last'.to)
                              \/ FrontmatterOpenAt(doc, last'.to)
                              \/ CommentOpenAt(doc, last'.to)
             \/ ~NotBlacklisted(text)
       IN /\ declines => ~last'.preventDefault
          /\ ~last'.preventDefault =>
               /\ active' = active /\ ops' = ops /\ fmt' = fmt
               /\ \A i \in OpIds : ops'[i].fetch # "pending"
               /\ doc' = ReplaceRange(doc, text, last'.from, last'.to)]_vars

\* with auto-link off, a URL pasted over a selection went in as it was
C30_Witness ==
  /\ last.kind = "paste" /\ ~last.preventDefault /\ ~settings.autoLink
  /\ "returned" \notin DOMAIN last
  /\ last.from # last.to /\ last.text = UrlPlain
  /\ doc = <<"t">> \o UrlPlain /\ active = {}

====
